---- MODULE Spec2Model ----
(***************************************************************************)
(* Policy lifecycle and financial ledger of easybima-admin: the Quote,     *)
(* Policy, Claim, Payment and Commission models (Sequelize model classes)  *)
(* and the methods they define.                                            *)
(*                                                                         *)
(* Nullable values are sets with at most one element: {} is null or        *)
(* undefined, {v} is the value v.                                          *)
(***************************************************************************)
EXTENDS Integers, Sequences, FiniteSets, TLC

VARIABLES
  now,        \* the clock read by new Date(), in ticks
  qRow,       \* the persisted EasyQuote row
  qRow0,      \* the row as first persisted (history)
  policies,   \* the persisted POLICIES rows, in insertion order
  inst,       \* the loaded Quote instances (in memory, one per request)
  pc,         \* where each request is inside convertToPolicy
  callUser,   \* the convertedById each running convertToPolicy was given
  outcome,    \* how each instance's last convertToPolicy call ended
  ncalls,     \* convertToPolicy calls made on each instance
  args,       \* the arguments a function is called with
  result,     \* what the call returned: {} before it, {value} after
  cRow,       \* the persisted CLAIMS row
  cRow0,      \* the claim row as first persisted (history)
  cInst,      \* the loaded Claim instances (in memory, one per request)
  payments,   \* the persisted Payment rows, in insertion order
  cOutcome,   \* how each instance's last Claim method call ended
  cOp,        \* the Claim method called last, its instance and argument
  cCalls,     \* Claim method calls made so far
  pRow,       \* the persisted POLICIES row of one policy: {} before its creation
  pOp,        \* the last policy write: its kind, its values and how it ended
  payTable,   \* the rows of VW_PAYMENT, by primary key
  payOp,      \* the last Payment.markAsCompleted call and what it returned
  comRow,     \* the persisted COMMISSIONS row of one commission: {} before its creation
  comOp       \* the last commission write: its kind, values, outcome, and the status before

quoteVars == <<now, qRow, qRow0, policies, inst, pc, callUser, outcome, ncalls>>
fnVars == <<args, result>>
claimVars == <<cRow, cRow0, cInst, payments, cOutcome, cOp, cCalls>>
policyVars == <<pRow, pOp>>
ledgerVars == <<payTable, payOp, comRow, comOp>>

vars == <<quoteVars, fnVars, claimVars, policyVars, ledgerVars>>

(***************************************************************************)
(* Bounds of the model.                                                    *)
(***************************************************************************)
MaxNow == 4
MaxDay == 2
TicksPerDay == 2
MaxCalls == 2

Instances == {"r1", "r2"}
Users == {"u1"}
UserArgs == {{}} \cup {{u} : u \in Users}
Days == 0..MaxDay
DateArgs == {{}} \cup {{d} : d \in Days}

Only(s) == CHOOSE x \in s : TRUE

NoError == "none"

\* A claim as Claim.create leaves it when only the required fields are
\* given: status DRAFT and paidAmount 0 by default, the rest null.
NewClaim ==
  [id |-> "k1", clientId |-> "c1", status |-> "DRAFT", estimatedAmount |-> {},
   approvedAmount |-> {}, paidAmount |-> {0}, assignedTo |-> {},
   dateAssigned |-> {}, rejectionReason |-> {}, updatedBy |-> {}]

\* No payment is marked and no commission is written.
LedgerIdle ==
  /\ payTable = <<>>
  /\ payOp = <<>>
  /\ comRow = {}
  /\ comOp = <<>>

\* No policy is written.
PolicyIdle ==
  /\ pRow = {}
  /\ pOp = <<>>

\* No claim is in play.
ClaimIdle ==
  /\ cRow = NewClaim
  /\ cRow0 = cRow
  /\ cInst = [i \in Instances |-> cRow]
  /\ payments = <<>>
  /\ cOutcome = [i \in Instances |-> NoError]
  /\ cOp = <<>>
  /\ cCalls = 0

(***************************************************************************)
(* Quote (src/unnamed/part_002)                                            *)
(***************************************************************************)

\* The values the STATUS column accepts: DataTypes.ENUM("COMPLETED", "PENDING").
QuoteStatusEnum == {"COMPLETED", "PENDING"}

\* new Date(dateOnly): a DATEONLY value read as an instant is midnight at the
\* start of that day.
DateOnlyToInstant(d) == d * TicksPerDay

isValidStrictEnd(q, t) ==
  IF q.validFrom = {} \/ q.validTo = {} THEN FALSE
  ELSE /\ t >= DateOnlyToInstant(Only(q.validFrom))
       /\ t < DateOnlyToInstant(Only(q.validTo))
       /\ q.status = "PENDING"

isValidAnyStatus(q, t) ==
  IF q.validFrom = {} \/ q.validTo = {} THEN FALSE
  ELSE /\ t >= DateOnlyToInstant(Only(q.validFrom))
       /\ t <= DateOnlyToInstant(Only(q.validTo))

\* Quote.isValid, with the clock reading t.
isValid(q, t) ==
  IF q.validFrom = {} \/ q.validTo = {} THEN FALSE
  ELSE /\ t >= DateOnlyToInstant(Only(q.validFrom))
       /\ t <= DateOnlyToInstant(Only(q.validTo))
       /\ q.status = "PENDING"

ErrNotPending == "Only pending quotes can be converted to policies"
ErrExpired == "Cannot convert expired or invalid quote"

PreconditionErrorNoStatusCheck(q, t) ==
  IF ~isValid(q, t) THEN ErrExpired ELSE NoError

PreconditionErrorOneMessage(q, t) ==
  IF q.status # "PENDING" THEN ErrNotPending
  ELSE IF ~isValid(q, t) THEN ErrNotPending
  ELSE NoError

\* The two guards at the head of convertToPolicy: the message of the Error
\* thrown, or NoError.
PreconditionError(q, t) ==
  IF q.status # "PENDING" THEN ErrNotPending
  ELSE IF ~isValid(q, t) THEN ErrExpired
  ELSE NoError

(***************************************************************************)
(* Policy (src/src/models/Policy.js)                                       *)
(***************************************************************************)

\* The attributes of the Policy model that the conversion can touch.
PolicyAttributes ==
  {"policyNumber", "quoteId", "clientId", "productId", "sumInsured",
   "annualPremium", "adjustedPremium", "policyStartDate", "policyEndDate",
   "status", "createdBy"}

\* The attributes declared allowNull: false without a default value.
PolicyRequired ==
  {"policyNumber", "clientId", "productId", "sumInsured", "annualPremium",
   "policyStartDate", "policyEndDate", "createdBy"}

\* Model.build keeps only the keys that are attributes of the model.
PolicyBuild(values) ==
  [f \in (DOMAIN values) \cap PolicyAttributes |-> values[f]]

\* The model's validation of a built policy: every required attribute is
\* there and not null, and policyStartDate is before policyEndDate.
PolicyValidate(p) ==
  /\ \A f \in PolicyRequired : f \in DOMAIN p
  /\ "createdBy" \in DOMAIN p => p.createdBy # {}
  /\ ("policyStartDate" \in DOMAIN p /\ "policyEndDate" \in DOMAIN p)
       => p.policyStartDate < p.policyEndDate

\* POLICY_NUMBER is unique.
PolicyNumberFree(p, rows) ==
  \A k \in DOMAIN rows : rows[k].policyNumber # p.policyNumber

(***************************************************************************)
(* The transaction of convertToPolicy. db is the committed state, tx the   *)
(* writes made with { transaction } and not yet committed.                 *)
(***************************************************************************)
EmptyTx == [policies |-> <<>>, quote |-> {}]

Commit(db, tx) ==
  [policies |-> db.policies \o tx.policies,
   quote |-> IF tx.quote = {} THEN db.quote ELSE Only(tx.quote)]

\* transaction.rollback(): the writes of the transaction are dropped.
Rollback(db, tx) == db

PolicyCreateUnchecked(values, db, tx) ==
  [err |-> NoError,
   db |-> [db EXCEPT !.policies = Append(@, values)],
   tx |-> tx]

\* Policy.create(values, { transaction }): build, validate, insert.
PolicyCreate(values, db, tx) ==
  LET p == PolicyBuild(values) IN
  IF ~PolicyValidate(p)
    THEN [err |-> "SequelizeValidationError", db |-> db, tx |-> tx]
  ELSE IF ~PolicyNumberFree(p, db.policies \o tx.policies)
    THEN [err |-> "SequelizeUniqueConstraintError", db |-> db, tx |-> tx]
  ELSE [err |-> NoError, db |-> db,
        tx |-> [tx EXCEPT !.policies = Append(@, p)]]

\* this.save({ transaction }) of the quote: the status must be a value of
\* the column's ENUM.
QuoteSave(q, db, tx) ==
  IF q.status \notin QuoteStatusEnum
    THEN [err |-> "SequelizeDatabaseError", db |-> db, tx |-> tx]
  ELSE [err |-> NoError, db |-> db, tx |-> [tx EXCEPT !.quote = {q}]]

\* The values convertToPolicy hands to Policy.create.
ConvertValues(q, user, t) ==
  [clientId |-> q.clientId,
   productId |-> q.productId,
   quoteId |-> q.id,
   policyNumber |-> <<"POL-", q.quoteNumber>>,
   startDate |-> t,
   endDate |-> q.validTo,
   sumInsured |-> q.sumInsured,
   basePremium |-> q.basePremium,
   totalPremium |-> q.totalPremium,
   status |-> "ACTIVE",
   createdBy |-> user]

TryBlockMutatesFirst(q, user, t, db) ==
  LET q2 == [q EXCEPT !.status = "CONVERTED", !.convertedAt = {t},
                      !.convertedById = user]
      created == PolicyCreate(ConvertValues(q, user, t), db, EmptyTx)
  IN [db |-> Rollback(created.db, created.tx), inst |-> q2,
      err |-> created.err]

\* The try/catch of convertToPolicy, run with the instance q, the user given
\* and the committed state db: the committed state, the instance and the
\* error afterwards.
TryBlock(q, user, t, db) ==
  LET created == PolicyCreate(ConvertValues(q, user, t), db, EmptyTx) IN
  IF created.err # NoError
    THEN [db |-> Rollback(created.db, created.tx), inst |-> q,
          err |-> created.err]
  ELSE
    LET q2 == [q EXCEPT !.status = "CONVERTED", !.convertedAt = {t},
                        !.convertedById = user]
        saved == QuoteSave(q2, created.db, created.tx)
    IN IF saved.err # NoError
         THEN [db |-> Rollback(saved.db, saved.tx), inst |-> q2,
               err |-> saved.err]
       ELSE [db |-> Commit(saved.db, saved.tx), inst |-> q2, err |-> NoError]

(***************************************************************************)
(* Initial state: one persisted quote, loaded by every request.            *)
(***************************************************************************)
QuoteRows ==
  [id : {"q1"}, quoteNumber : {"Q-1"}, clientId : {"c1"}, productId : {"p1"},
   sumInsured : {5000}, basePremium : {1000}, totalPremium : {1065},
   validFrom : DateArgs, validTo : DateArgs,
   status : QuoteStatusEnum, convertedAt : {{}}, convertedById : {{}}]

QuoteInit ==
  /\ now \in 0..MaxNow
  /\ qRow \in QuoteRows
  /\ qRow0 = qRow
  /\ policies = <<>>
  /\ inst = [i \in Instances |-> qRow]
  /\ pc = [i \in Instances |-> "idle"]
  /\ callUser = [i \in Instances |-> {}]
  /\ outcome = [i \in Instances |-> NoError]
  /\ ncalls = [i \in Instances |-> 0]
  /\ args = <<>>
  /\ result = {}
  /\ ClaimIdle
  /\ PolicyIdle
  /\ LedgerIdle

(***************************************************************************)
(* Actions                                                                 *)
(***************************************************************************)
Tick ==
  /\ now < MaxNow
  /\ now' = now + 1
  /\ UNCHANGED <<qRow, qRow0, policies, inst, pc, callUser, outcome, ncalls>>
  /\ UNCHANGED <<fnVars, claimVars, policyVars, ledgerVars>>

\* Quote.findByPk: a request loads the persisted quote.
Load(i) ==
  /\ pc[i] = "idle"
  /\ inst' = [inst EXCEPT ![i] = qRow]
  /\ UNCHANGED <<now, qRow, qRow0, policies, pc, callUser, outcome, ncalls>>
  /\ UNCHANGED <<fnVars, claimVars, policyVars, ledgerVars>>

\* convertToPolicy up to the opening of the transaction.
convertToPolicy_check(i, user) ==
  /\ pc[i] = "idle"
  /\ ncalls[i] < MaxCalls
  /\ ncalls' = [ncalls EXCEPT ![i] = @ + 1]
  /\ LET e == PreconditionError(inst[i], now) IN
       IF e # NoError
         THEN /\ outcome' = [outcome EXCEPT ![i] = e]
              /\ UNCHANGED <<pc, callUser>>
       ELSE /\ pc' = [pc EXCEPT ![i] = "tx"]
            /\ callUser' = [callUser EXCEPT ![i] = user]
            /\ outcome' = [outcome EXCEPT ![i] = NoError]
  /\ UNCHANGED <<now, qRow, qRow0, policies, inst>>
  /\ UNCHANGED <<fnVars, claimVars, policyVars, ledgerVars>>

\* convertToPolicy from the try to its return or rethrow.
convertToPolicy_try(i) ==
  /\ pc[i] = "tx"
  /\ LET r == TryBlock(inst[i], callUser[i], now,
                       [policies |-> policies, quote |-> qRow]) IN
       /\ policies' = r.db.policies
       /\ qRow' = r.db.quote
       /\ inst' = [inst EXCEPT ![i] = r.inst]
       /\ outcome' = [outcome EXCEPT ![i] = IF r.err = NoError THEN "ok" ELSE r.err]
  /\ pc' = [pc EXCEPT ![i] = "idle"]
  /\ UNCHANGED <<now, qRow0, callUser, ncalls>>
  /\ UNCHANGED <<fnVars, claimVars, policyVars, ledgerVars>>

QuoteNext ==
  \/ Tick
  \/ \E i \in Instances : Load(i)
  \/ \E i \in Instances, u \in UserArgs : convertToPolicy_check(i, u)
  \/ \E i \in Instances : convertToPolicy_try(i)

SpecQuote == QuoteInit /\ [][QuoteNext]_vars

(***************************************************************************)
(* Properties of Quote.convertToPolicy                                     *)
(***************************************************************************)
PoliciesOf(qid) == {k \in DOMAIN policies : policies[k].quoteId = qid}

TxErrors ==
  {"SequelizeValidationError", "SequelizeUniqueConstraintError",
   "SequelizeDatabaseError"}

\* A convertToPolicy call is made on instance i in this step.
Called(i) == ncalls'[i] # ncalls[i]

\* The try/catch of a convertToPolicy call on instance i ends in this step.
TryEnds(i) == pc[i] = "tx" /\ pc'[i] = "idle"

SameConversionFields(a, b) ==
  /\ a.status = b.status
  /\ a.convertedAt = b.convertedAt
  /\ a.convertedById = b.convertedById

\* C1: whatever the outcome of convertToPolicy, the persisted state is
\* either (b) no Policy for the quote and the quote's persisted status,
\* convertedAt and convertedById as they were, or (a) exactly one Policy
\* referencing the quote and the quote's persisted status CONVERTED.
C1_AllOrNothing ==
  \/ /\ PoliciesOf(qRow0.id) = {}
     /\ SameConversionFields(qRow, qRow0)
  \/ /\ Cardinality(PoliciesOf(qRow0.id)) = 1
     /\ qRow.status = "CONVERTED"

\* A conversion failed inside its transaction and nothing of it is persisted.
C1_Witness ==
  \E i \in Instances :
    /\ pc[i] = "idle"
    /\ outcome[i] \in TxErrors
    /\ policies = <<>>
    /\ qRow = qRow0

\* C2: convertToPolicy on a PENDING quote inside its validity window, given
\* a user, succeeds: one ACTIVE Policy references the quote, carries its
\* sumInsured and premium and passes the Policy model's validation, and the
\* quote is persisted CONVERTED (a value of its status ENUM) with
\* convertedAt set and convertedById the given user.
C2_ConversionSucceeds ==
  \A i \in Instances :
    (pc[i] = "idle" /\ callUser[i] # {} /\ outcome[i] \in TxErrors \cup {"ok"})
      => /\ outcome[i] = "ok"
         /\ \E k \in PoliciesOf(qRow0.id) :
              /\ policies[k].status = "ACTIVE"
              /\ policies[k].sumInsured = qRow0.sumInsured
              /\ PolicyValidate(policies[k])
              /\ policies[k].annualPremium = qRow0.totalPremium
         /\ qRow.status = "CONVERTED"
         /\ qRow.status \in QuoteStatusEnum
         /\ qRow.convertedAt # {}
         /\ qRow.convertedById = callUser[i]

\* C3: under any interleaving of convertToPolicy calls on one quote, at most
\* one Policy referencing the quote is ever persisted, and once the quote is
\* persisted CONVERTED no step changes the quote or the policies, and no
\* call ends in success.
C3_ConvertsAtMostOnce ==
  /\ [](Cardinality(PoliciesOf(qRow0.id)) <= 1)
  /\ [][qRow.status = "CONVERTED"
          => /\ qRow' = qRow
             /\ policies' = policies
             /\ \A i \in Instances : TryEnds(i) => outcome'[i] # "ok"]_vars

\* One request has run convertToPolicy twice on its instance while another
\* request, which also read PENDING, is inside its transaction.
C3_Witness ==
  \E i, j \in Instances :
    /\ i # j
    /\ ncalls[i] >= 2
    /\ pc[i] = "idle"
    /\ outcome[i] \in TxErrors
    /\ pc[j] = "tx"

\* C4: convertToPolicy on a quote whose status is not PENDING throws the
\* invalid-state error, opens no transaction, creates no Policy and leaves
\* the quote, persisted and in memory, as it was.
C4_NotPendingRejected ==
  [][\A i \in Instances :
       (Called(i) /\ inst[i].status # "PENDING")
         => /\ outcome'[i] = ErrNotPending
            /\ pc'[i] = "idle"
            /\ policies' = policies
            /\ qRow' = qRow
            /\ inst' = inst]_vars

C4_Witness ==
  \E i \in Instances :
    /\ ncalls[i] > 0
    /\ inst[i].status = "COMPLETED"
    /\ outcome[i] = ErrNotPending
    /\ policies = <<>>

\* now is outside [validFrom, validTo], both read as instants.
OutsideWindow(q, t) ==
  /\ q.validFrom # {}
  /\ q.validTo # {}
  /\ \/ t < Only(q.validFrom) * TicksPerDay
     \/ t > Only(q.validTo) * TicksPerDay

\* C5: convertToPolicy on a PENDING quote with now outside its validity
\* window throws the expiry error, which is not the error thrown for a
\* quote that is not PENDING, and creates no Policy.
C5_ExpiredRejected ==
  [][\A i \in Instances :
       (Called(i) /\ inst[i].status = "PENDING" /\ OutsideWindow(inst[i], now))
         => /\ outcome'[i] = ErrExpired
            /\ outcome'[i] # ErrNotPending
            /\ pc'[i] = "idle"
            /\ policies' = policies]_vars

C5_Witness ==
  \E i \in Instances :
    /\ ncalls[i] > 0
    /\ inst[i].status = "PENDING"
    /\ OutsideWindow(inst[i], now)
    /\ outcome[i] = ErrExpired
    /\ policies = <<>>

\* C6: when convertToPolicy fails inside its transaction, the instance the
\* caller holds has the status, convertedAt and convertedById it had before,
\* so its status is still PENDING.
C6_InstanceUnmodifiedOnFailure ==
  [][\A i \in Instances :
       (TryEnds(i) /\ outcome'[i] # "ok")
         => /\ SameConversionFields(inst'[i], inst[i])
            /\ inst'[i].status = "PENDING"]_vars

C6_Witness ==
  \E i \in Instances :
    /\ pc[i] = "idle"
    /\ outcome[i] = "SequelizeValidationError"
    /\ inst[i].status = "PENDING"
    /\ inst[i].convertedAt = {}
    /\ inst[i].convertedById = {}

(***************************************************************************)
(* Functions of one call: the arguments are drawn in the initial state and *)
(* the call stores what it returns.                                        *)
(***************************************************************************)
SeqsUpTo(S, n) == UNION {[1..k -> S] : k \in 0..n}

Max(a, b) == IF a >= b THEN a ELSE b

\* JavaScript truthiness of a nullable number: neither null/undefined nor 0.
Truthy(n) == n # {} /\ n # {0}

\* No quote is in play while a function is called.
QuoteIdle ==
  /\ now = 0
  /\ qRow = CHOOSE r \in QuoteRows : TRUE
  /\ qRow0 = qRow
  /\ policies = <<>>
  /\ inst = [i \in Instances |-> qRow]
  /\ pc = [i \in Instances |-> "idle"]
  /\ callUser = [i \in Instances |-> {}]
  /\ outcome = [i \in Instances |-> NoError]
  /\ ncalls = [i \in Instances |-> 0]

(***************************************************************************)
(* Quote.isValid                                                           *)
(***************************************************************************)
QuoteStatuses ==
  {"DRAFT", "PENDING", "COMPLETED", "APPROVED", "CONVERTED", "DECLINED",
   "EXPIRED"}

IsValidInit ==
  /\ args \in [status : QuoteStatuses, validFrom : DateArgs,
               validTo : DateArgs, t : 0..MaxNow]
  /\ result = {}
  /\ QuoteIdle
  /\ ClaimIdle
  /\ PolicyIdle
  /\ LedgerIdle

isValid_call ==
  /\ result = {}
  /\ result' = {isValid(args, args.t)}
  /\ UNCHANGED <<args, quoteVars, claimVars, policyVars, ledgerVars>>

SpecIsValid == IsValidInit /\ [][isValid_call]_vars

\* C8: Quote.isValid returns true if and only if the status is PENDING,
\* both bounds are there and validFrom <= now <= validTo, each bound
\* included.
C8_IsValidIffPendingInWindow ==
  result # {} =>
    (Only(result) <=>
       /\ args.status = "PENDING"
       /\ args.validFrom # {}
       /\ args.validTo # {}
       /\ \A f \in args.validFrom : f * TicksPerDay <= args.t
       /\ \A e \in args.validTo : args.t <= e * TicksPerDay)

\* isValid returned true at the last instant of the window.
C8_Witness ==
  /\ result = {TRUE}
  /\ args.validFrom # args.validTo
  /\ \E e \in args.validTo : args.t = e * TicksPerDay

(***************************************************************************)
(* Quote hooks.beforeCreate: the total premium. Amounts are whole numbers; *)
(* a total is kept in hundredths (amount * Percent), so that a tax of      *)
(* total * rate / 100 is exact.                                            *)
(***************************************************************************)
Percent == 100

\* (x.amount || 0)
AmountOrZero(x) == IF Truthy(x.amount) THEN Only(x.amount) ELSE 0

\* list.reduce((sum, x) => sum + (x.amount || 0), 0)
RECURSIVE SumAmounts(_)
SumAmounts(list) ==
  IF list = <<>> THEN 0
  ELSE AmountOrZero(Head(list)) + SumAmounts(Tail(list))

\* The reduce over taxes, in hundredths, with quote.totalPremium = total
\* while it runs.
RECURSIVE TaxSum(_, _)
TaxSum(taxes, total) ==
  IF taxes = <<>> THEN 0
  ELSE LET tax == Head(taxes) IN
       (IF Truthy(tax.amount) THEN Only(tax.amount) * Percent
        ELSE IF Truthy(tax.rate) THEN total * Only(tax.rate)
        ELSE 0) + TaxSum(Tail(taxes), total)

beforeCreateTotalClampLast(q) ==
  IF Truthy(q.basePremium) /\ ~Truthy(q.totalPremium)
    THEN LET t2 == Max(0, Only(q.basePremium) - SumAmounts(q.discounts)
                            + SumAmounts(q.loadings))
         IN {t2 * Percent + TaxSum(q.taxes, t2) + SumAmounts(q.fees) * Percent}
  ELSE {t * Percent : t \in q.totalPremium}

\* The totalPremium of the quote after the hook, in hundredths ({} if null).
beforeCreateTotal(q) ==
  IF Truthy(q.basePremium) /\ ~Truthy(q.totalPremium)
    THEN LET t0 == Only(q.basePremium)
             t1 == IF Len(q.discounts) > 0
                     THEN Max(0, t0 - SumAmounts(q.discounts))
                   ELSE t0
             t2 == IF Len(q.loadings) > 0
                     THEN t1 + SumAmounts(q.loadings)
                   ELSE t1
             t3 == IF Len(q.taxes) > 0
                     THEN t2 * Percent + TaxSum(q.taxes, t2)
                   ELSE t2 * Percent
             t4 == IF Len(q.fees) > 0
                     THEN t3 + SumAmounts(q.fees) * Percent
                   ELSE t3
         IN {t4}
  ELSE {t * Percent : t \in q.totalPremium}

MaxAdjustments == 2

DiscountItems == {[amount |-> {}], [amount |-> {2}]}
LoadingItems == {[amount |-> {1}]}
TaxItems ==
  {[amount |-> {}, rate |-> {}], [amount |-> {2}, rate |-> {}],
   [amount |-> {}, rate |-> {50}], [amount |-> {0}, rate |-> {50}],
   [amount |-> {2}, rate |-> {50}]}
FeeItems == {[amount |-> {1}]}

PremiumInputs ==
  [basePremium : {{0}, {3}}, totalPremium : {{}, {0}, {5}},
   discounts : SeqsUpTo(DiscountItems, MaxAdjustments),
   loadings : SeqsUpTo(LoadingItems, MaxAdjustments),
   taxes : SeqsUpTo(TaxItems, MaxAdjustments),
   fees : SeqsUpTo(FeeItems, MaxAdjustments)]

ExampleQuote ==
  [basePremium |-> {1000}, totalPremium |-> {},
   discounts |-> <<[amount |-> {100}]>>,
   loadings |-> <<[amount |-> {50}]>>,
   taxes |-> <<[amount |-> {}, rate |-> {10}]>>,
   fees |-> <<[amount |-> {20}]>>]

PremiumInit ==
  /\ args \in PremiumInputs \cup {ExampleQuote}
  /\ result = {}
  /\ QuoteIdle
  /\ ClaimIdle
  /\ PolicyIdle
  /\ LedgerIdle

beforeCreate ==
  /\ result = {}
  /\ result' = {beforeCreateTotal(args)}
  /\ UNCHANGED <<args, quoteVars, claimVars, policyVars, ledgerVars>>

SpecPremium == PremiumInit /\ [][beforeCreate]_vars

\* The hook computes the total: a base premium is there and no total is.
HookComputes(q) ==
  /\ q.basePremium # {} /\ q.basePremium # {0}
  /\ q.totalPremium \in {{}, {0}}

\* The sum of the amounts of a list of adjustments, a missing amount
\* counting nothing.
RECURSIVE AmountsOf(_)
AmountsOf(list) ==
  IF list = <<>> THEN 0
  ELSE (IF Head(list).amount = {} THEN 0 ELSE Only(Head(list).amount))
       + AmountsOf(Tail(list))

\* A tax counts its amount rather than its rate: if the amount is present
\* or, with nonZero, if it is present and not 0.
UsesAmount(tax, nonZero) ==
  tax.amount # {} /\ (nonZero => tax.amount # {0})

\* The taxes on a running total, in hundredths: a tax counts its amount if
\* UsesAmount, else total * rate / 100.
RECURSIVE TaxesOn(_, _, _)
TaxesOn(taxes, total, nonZero) ==
  IF taxes = <<>> THEN 0
  ELSE LET tax == Head(taxes) IN
       (IF UsesAmount(tax, nonZero) THEN Only(tax.amount) * Percent
        ELSE IF tax.rate = {} THEN 0
        ELSE total * Only(tax.rate))
       + TaxesOn(Tail(taxes), total, nonZero)

\* The pipeline: max(0, base - discounts), + loadings, + taxes on that
\* running total, + fees; in hundredths.
Pipeline(q, nonZero) ==
  LET running == Max(0, Only(q.basePremium) - AmountsOf(q.discounts))
                   + AmountsOf(q.loadings)
  IN running * Percent + TaxesOn(q.taxes, running, nonZero)
       + AmountsOf(q.fees) * Percent

PaymentStatusEnum == {"PENDING", "COMPLETED", "FAILED", "CANCELLED", "REFUNDED"}

\* The defaultScope of Payment, where: { INIT: 1 }: every query made through
\* the model that does not ask for another scope carries it, the
\* association getters and the static update among them.
defaultScope(row) == row.INIT = 1

\* this.getPayments({ where: { status: 'COMPLETED' } })
getPayments(policy, pays, status) ==
  SelectSeq(pays, LAMBDA p : /\ defaultScope(p)
                             /\ p.policyId = policy.id
                             /\ p.status = status)

RECURSIVE SumPaid(_)
SumPaid(pays) ==
  IF pays = <<>> THEN 0
  ELSE Head(pays).amount + SumPaid(Tail(pays))

calculateTotalPaid(policy, pays) ==
  SumPaid(getPayments(policy, pays, "COMPLETED"))

\* this.adjustedPremium || this.annualPremium, less the total paid, not
\* below 0.
calculateOutstandingBalance(policy, pays) ==
  LET totalPremium == IF Truthy(policy.adjustedPremium)
                        THEN Only(policy.adjustedPremium)
                      ELSE policy.annualPremium
  IN Max(0, totalPremium - calculateTotalPaid(policy, pays))

MaxPayments == 2
MaxPremium == 3

PaymentRows ==
  [policyId : {"p1", "p2"}, amount : {1, 2}, status : PaymentStatusEnum,
   INIT : {0, 1}]

BalanceInit ==
  /\ args \in [policy : [id : {"p1"}, adjustedPremium : {{}, {0}, {2}},
                         annualPremium : 0..MaxPremium],
               payments : SeqsUpTo(PaymentRows, MaxPayments)]
  /\ result = {}
  /\ QuoteIdle
  /\ ClaimIdle
  /\ PolicyIdle
  /\ LedgerIdle

calculateOutstandingBalance_call ==
  /\ result = {}
  /\ result' = {calculateOutstandingBalance(args.policy, args.payments)}
  /\ UNCHANGED <<args, quoteVars, claimVars, policyVars, ledgerVars>>

SpecBalance == BalanceInit /\ [][calculateOutstandingBalance_call]_vars

\* The sum of the amounts of the COMPLETED payments of policy id.
RECURSIVE CompletedSum(_, _)
CompletedSum(id, pays) ==
  IF pays = <<>> THEN 0
  ELSE (IF Head(pays).policyId = id /\ Head(pays).status = "COMPLETED"
          THEN Head(pays).amount ELSE 0)
       + CompletedSum(id, Tail(pays))

\* C9: calculateOutstandingBalance returns max(0, P - S), S the sum of the
\* policy's COMPLETED payments and P the adjustedPremium whenever it is set,
\* 0 included, and the annualPremium only when it is null; the result is
\* never negative.
C9_OutstandingBalance ==
  result # {} =>
    LET P == IF args.policy.adjustedPremium # {}
               THEN Only(args.policy.adjustedPremium)
             ELSE args.policy.annualPremium
        S == CompletedSum(args.policy.id, args.payments)
    IN /\ Only(result) = Max(0, P - S)
       /\ Only(result) >= 0

(***************************************************************************)
(* Payment (src/src/models/Payment.js)                                     *)
(***************************************************************************)
PaymentAttributes ==
  {"id", "customerCode", "policyId", "amount", "paymentMethod",
   "transactionId", "mpesaCode", "paymentDate", "dueDate", "status",
   "paymentType", "installmentNumber", "validatedBy", "validatedAt", "notes",
   "createdBy", "updatedBy", "deletedAt", "CLAIM_ID", "POLICY_ID"}

\* The attributes declared allowNull: false without a default value.
PaymentRequired ==
  {"customerCode", "policyId", "amount", "paymentMethod", "createdBy"}

\* validate: { min: 0.01 } on amount, in hundredths.
MinAmountHundredths == 1

\* Model.build keeps only the keys that are attributes of the model.
PaymentBuild(values) ==
  [f \in (DOMAIN values) \cap PaymentAttributes |-> values[f]]

\* A mutant of PaymentValidate: validation is switched off.
PaymentValidateAny(p) == TRUE

\* The model's validation of a built payment: every required attribute is
\* there and not null, and the amount is at least 0.01.
PaymentValidate(p) ==
  /\ \A f \in PaymentRequired : f \in DOMAIN p /\ p[f] # {}
  /\ Only(p.amount) * Percent >= MinAmountHundredths

\* Payment.create(values): build, validate, insert.
PaymentCreate(values, rows) ==
  LET p == PaymentBuild(values) IN
  IF ~PaymentValidate(p)
    THEN [err |-> "SequelizeValidationError", rows |-> rows, payment |-> {}]
  ELSE [err |-> NoError, rows |-> Append(rows, p), payment |-> {p}]

(***************************************************************************)
(* Claim (src/unnamed/part_000)                                            *)
(***************************************************************************)
ClaimStatusEnum ==
  {"DRAFT", "SUBMITTED", "UNDER_REVIEW", "APPROVED", "REJECTED", "PAID",
   "CLOSED"}

ErrSubmit == "Only draft claims can be submitted"
ErrApprove == "Only submitted or under review claims can be approved"
ErrReject == "Only submitted or under review claims can be rejected"
ErrReason == "Rejection reason is required"
ErrRecordPayment == "Only approved or paid claims can receive payments"
ErrDatabase == "SequelizeDatabaseError"

\* The beforeUpdate hook: dateAssigned is set when assignedTo changes to a
\* user and no date was set.
beforeUpdate(before, c, t) ==
  IF c.assignedTo # before.assignedTo /\ c.assignedTo # {}
       /\ c.dateAssigned = {}
    THEN [c EXCEPT !.dateAssigned = {t}]
  ELSE c

\* instance.update(values): the values are set on the instance and, when
\* they change anything, the instance's values of those fields are written
\* to the row. Returns the instance and the row.
update(c, values, row, t) ==
  LET set == [f \in DOMAIN c |->
                IF f \in DOMAIN values THEN values[f] ELSE c[f]]
      hooked == beforeUpdate(c, set, t)
      fields == DOMAIN values \cup
                  {f \in {"dateAssigned"} : hooked[f] # set[f]}
  IN IF set = c
       THEN [inst |-> c, row |-> row]
     ELSE [inst |-> hooked,
           row |-> [f \in DOMAIN row |->
                      IF f \in fields THEN hooked[f] ELSE row[f]]]

\* A value the amount arithmetic of recordPayment reads: || 0.
OrZero(n) == IF Truthy(n) THEN Only(n) ELSE 0

MaxClaimCalls == 2
MaxAmount == 2

AmountArgs == {{}} \cup {{n} : n \in 0..MaxAmount}
PayAmounts == (-1)..MaxAmount
ReasonArgs == {{}, {""}, {"fraud"}}
MethodArgs == {{"CASH"}}

\* Claims as created, not yet approved or paid; claims as approve leaves
\* them when a user approved them for their estimate; and claims whose
\* approved amount is paid in full.
ClaimRows ==
  {[NewClaim EXCEPT !.status = s, !.estimatedAmount = e] :
     s \in {"DRAFT", "SUBMITTED", "UNDER_REVIEW"},
     e \in {{}} \cup {{n} : n \in {0, MaxAmount}}}
  \cup
  {[NewClaim EXCEPT !.status = s, !.estimatedAmount = {n},
                    !.approvedAmount = {n},
                    !.paidAmount = IF s = "PAID" THEN {n} ELSE {0},
                    !.assignedTo = {u},
                    !.dateAssigned = {0}, !.updatedBy = {u}] :
     s \in {"APPROVED", "PAID"}, n \in {0, MaxAmount}, u \in Users}

\* The claim as a submit by this user leaves it.
Submitted(c, u) ==
  update(c, [status |-> "SUBMITTED", updatedBy |-> {u}], c, 0).row

\* The claim as first persisted, the row now, and what each request holds:
\* every request has loaded the row as it is, or the claim was created as a
\* DRAFT and submitted since, and a request still holds the DRAFT it loaded
\* before the submit.
ClaimHistories ==
  {[first |-> r, row |-> r, inst |-> [i \in Instances |-> r]] :
     r \in ClaimRows}
  \cup
  UNION {LET d == [NewClaim EXCEPT !.estimatedAmount = {MaxAmount}]
         IN {[first |-> d, row |-> Submitted(d, u), inst |-> f] :
               f \in {g \in [Instances -> {d, Submitted(d, u)}] :
                        \E i \in Instances : g[i] = d}} :
           u \in Users}

ClaimInit ==
  /\ \E h \in ClaimHistories :
       /\ cRow0 = h.first
       /\ cRow = h.row
       /\ cInst = h.inst
  /\ payments = <<>>
  /\ cOutcome = [i \in Instances |-> NoError]
  /\ cOp = <<>>
  /\ cCalls = 0
  /\ args = <<>>
  /\ result = {}
  /\ QuoteIdle
  /\ PolicyIdle
  /\ LedgerIdle

\* What every Claim method call records.
ClaimCall(i, op, arg, err) ==
  /\ cCalls < MaxClaimCalls
  /\ cCalls' = cCalls + 1
  /\ cOp' = <<op, i, arg>>
  /\ cOutcome' = [cOutcome EXCEPT ![i] = IF err = NoError THEN "ok" ELSE err]
  /\ UNCHANGED <<cRow0, quoteVars, fnVars, policyVars, ledgerVars>>

\* Claim.findByPk: a request loads the persisted claim.
ClaimLoad(i) ==
  /\ cInst[i] # cRow
  /\ cInst' = [cInst EXCEPT ![i] = cRow]
  /\ UNCHANGED <<cRow, cRow0, payments, cOutcome, cOp, cCalls>>
  /\ UNCHANGED <<quoteVars, fnVars, policyVars, ledgerVars>>

submitAnyStatus(i, userId) ==
  LET c == cInst[i] IN
  IF c.status = "CLOSED"
    THEN /\ ClaimCall(i, "submit", userId, ErrSubmit)
         /\ UNCHANGED <<cRow, cInst, payments>>
  ELSE LET u == update(c, [status |-> "SUBMITTED", updatedBy |-> userId],
                       cRow, now) IN
       /\ ClaimCall(i, "submit", userId, NoError)
       /\ cInst' = [cInst EXCEPT ![i] = u.inst]
       /\ cRow' = u.row
       /\ UNCHANGED payments

submit(i, userId) ==
  LET c == cInst[i] IN
  IF c.status # "DRAFT"
    THEN /\ ClaimCall(i, "submit", userId, ErrSubmit)
         /\ UNCHANGED <<cRow, cInst, payments>>
  ELSE LET u == update(c, [status |-> "SUBMITTED", updatedBy |-> userId],
                       cRow, now) IN
       /\ ClaimCall(i, "submit", userId, NoError)
       /\ cInst' = [cInst EXCEPT ![i] = u.inst]
       /\ cRow' = u.row
       /\ UNCHANGED payments

approveNullish(i, approvedAmount, userId) ==
  LET c == cInst[i] IN
  IF c.status \notin {"SUBMITTED", "UNDER_REVIEW"}
    THEN /\ ClaimCall(i, "approve", [approvedAmount |-> approvedAmount, userId |-> userId], ErrApprove)
         /\ UNCHANGED <<cRow, cInst, payments>>
  ELSE LET u == update(c, [status |-> "APPROVED",
                           approvedAmount |->
                             IF approvedAmount # {} THEN approvedAmount
                             ELSE c.estimatedAmount,
                           assignedTo |-> userId,
                           updatedBy |-> userId],
                       cRow, now) IN
       /\ ClaimCall(i, "approve", [approvedAmount |-> approvedAmount, userId |-> userId], NoError)
       /\ cInst' = [cInst EXCEPT ![i] = u.inst]
       /\ cRow' = u.row
       /\ UNCHANGED payments

approve(i, approvedAmount, userId) ==
  LET c == cInst[i] IN
  IF c.status \notin {"SUBMITTED", "UNDER_REVIEW"}
    THEN /\ ClaimCall(i, "approve", [approvedAmount |-> approvedAmount, userId |-> userId], ErrApprove)
         /\ UNCHANGED <<cRow, cInst, payments>>
  ELSE LET u == update(c, [status |-> "APPROVED",
                           approvedAmount |->
                             IF Truthy(approvedAmount) THEN approvedAmount
                             ELSE c.estimatedAmount,
                           assignedTo |-> userId,
                           updatedBy |-> userId],
                       cRow, now) IN
       /\ ClaimCall(i, "approve", [approvedAmount |-> approvedAmount, userId |-> userId], NoError)
       /\ cInst' = [cInst EXCEPT ![i] = u.inst]
       /\ cRow' = u.row
       /\ UNCHANGED payments

rejectNoReasonCheck(i, reason, userId) ==
  LET c == cInst[i] IN
  IF c.status \notin {"SUBMITTED", "UNDER_REVIEW"}
    THEN /\ ClaimCall(i, "reject", [reason |-> reason, userId |-> userId], ErrReject)
         /\ UNCHANGED <<cRow, cInst, payments>>
  ELSE IF FALSE
    THEN /\ ClaimCall(i, "reject", [reason |-> reason, userId |-> userId], ErrReason)
         /\ UNCHANGED <<cRow, cInst, payments>>
  ELSE LET u == update(c, [status |-> "REJECTED", rejectionReason |-> reason,
                           updatedBy |-> userId],
                       cRow, now) IN
       /\ ClaimCall(i, "reject", [reason |-> reason, userId |-> userId], NoError)
       /\ cInst' = [cInst EXCEPT ![i] = u.inst]
       /\ cRow' = u.row
       /\ UNCHANGED payments

reject(i, reason, userId) ==
  LET c == cInst[i] IN
  IF c.status \notin {"SUBMITTED", "UNDER_REVIEW"}
    THEN /\ ClaimCall(i, "reject", [reason |-> reason, userId |-> userId], ErrReject)
         /\ UNCHANGED <<cRow, cInst, payments>>
  ELSE IF reason = {} \/ reason = {""}
    THEN /\ ClaimCall(i, "reject", [reason |-> reason, userId |-> userId], ErrReason)
         /\ UNCHANGED <<cRow, cInst, payments>>
  ELSE LET u == update(c, [status |-> "REJECTED", rejectionReason |-> reason,
                           updatedBy |-> userId],
                       cRow, now) IN
       /\ ClaimCall(i, "reject", [reason |-> reason, userId |-> userId], NoError)
       /\ cInst' = [cInst EXCEPT ![i] = u.inst]
       /\ cRow' = u.row
       /\ UNCHANGED payments

\* instance.update(values) when the UPDATE statement fails: the values were
\* set on the instance, nothing is written.
updateRejected(c, values) ==
  [f \in DOMAIN c |-> IF f \in DOMAIN values THEN values[f] ELSE c[f]]

\* updateFails: the storage layer fails the UPDATE of the claim.
recordPayment(i, amount, paymentMethod, userId, updateFails) ==
  LET c == cInst[i] IN
  IF c.status \notin {"APPROVED", "PAID"}
    THEN /\ ClaimCall(i, "recordPayment", [amount |-> amount, updateFails |-> updateFails], ErrRecordPayment)
         /\ UNCHANGED <<cRow, cInst, payments>>
  ELSE
    LET created == PaymentCreate([claimId |-> {c.id},
                                  clientId |-> {c.clientId},
                                  amount |-> {amount},
                                  paymentMethod |-> paymentMethod,
                                  reference |-> {"ref"},
                                  notes |-> {},
                                  status |-> {"COMPLETED"},
                                  createdBy |-> userId,
                                  updatedBy |-> userId],
                                 payments)
        newPaidAmount == OrZero(c.paidAmount) + amount
        newStatus == IF newPaidAmount >= OrZero(c.approvedAmount)
                       THEN "PAID" ELSE c.status
        values == [paidAmount |-> {newPaidAmount}, status |-> newStatus,
                   updatedBy |-> userId]
        u == update(c, values, cRow, now)
    IN IF created.err # NoError
         THEN /\ ClaimCall(i, "recordPayment", [amount |-> amount, updateFails |-> updateFails], created.err)
              /\ UNCHANGED <<cRow, cInst, payments>>
       ELSE IF updateFails
         THEN /\ ClaimCall(i, "recordPayment", [amount |-> amount, updateFails |-> updateFails], ErrDatabase)
              /\ payments' = created.rows
              /\ cInst' = [cInst EXCEPT ![i] = updateRejected(c, values)]
              /\ UNCHANGED cRow
       ELSE /\ ClaimCall(i, "recordPayment", [amount |-> amount, updateFails |-> updateFails], NoError)
            /\ payments' = created.rows
            /\ cInst' = [cInst EXCEPT ![i] = u.inst]
            /\ cRow' = u.row

ClaimNext ==
  \/ \E i \in Instances : ClaimLoad(i)
  \/ \E i \in Instances, u \in UserArgs : submit(i, u)
  \/ \E i \in Instances, a \in AmountArgs, u \in UserArgs : approve(i, a, u)
  \/ \E i \in Instances, r \in ReasonArgs, u \in UserArgs : reject(i, r, u)
  \/ \E i \in Instances, a \in PayAmounts, m \in MethodArgs, u \in UserArgs,
          f \in BOOLEAN :
       recordPayment(i, a, m, u, f)

SpecClaim == ClaimInit /\ [][ClaimNext]_vars

\* A step is a recordPayment call.
RecordPaymentCalled == cCalls' # cCalls /\ cOp'[1] = "recordPayment"

\* C10: over the recordPayment calls on a claim, paidAmount never decreases,
\* and the status becomes PAID at exactly the first call after which
\* paidAmount >= approvedAmount: a call after which paidAmount is at least
\* approvedAmount leaves the claim PAID, and a call that makes the claim PAID
\* leaves paidAmount at least approvedAmount.
C10_PaidAtFirstCover ==
  [][RecordPaymentCalled /\ cRow.status \in {"APPROVED", "PAID"} =>
       /\ OrZero(cRow'.paidAmount) >= OrZero(cRow.paidAmount)
       /\ OrZero(cRow'.paidAmount) >= OrZero(cRow'.approvedAmount)
            => cRow'.status = "PAID"
       /\ (cRow'.status = "PAID" /\ cRow.status # "PAID")
            => OrZero(cRow'.paidAmount) >= OrZero(cRow'.approvedAmount)]_vars

\* The instance a Claim method was just called on, and what it held.
Callee == cOp'[2]
CalleeBefore == cInst[Callee]

\* C11: recordPayment(amount, ...) on a claim whose status is APPROVED or
\* PAID succeeds: it persists one new Payment for that amount, linked to the
\* claim and valid under the Payment model, and increases the claim's
\* paidAmount by amount; on a claim in any other status it fails, creates no
\* Payment and leaves paidAmount and status unchanged.
C11_RecordPaymentSucceeds ==
  [][RecordPaymentCalled =>
       LET amount == cOp'[3].amount IN
       IF CalleeBefore.status \in {"APPROVED", "PAID"}
         THEN (amount >= 1 /\ ~cOp'[3].updateFails) =>
                /\ cOutcome'[Callee] = "ok"
                /\ Len(payments') = Len(payments) + 1
                /\ LET p == payments'[Len(payments')] IN
                     /\ p.amount = {amount}
                     /\ PaymentValidate(p)
                     /\ "CLAIM_ID" \in DOMAIN p
                /\ OrZero(cInst'[Callee].paidAmount)
                     = OrZero(CalleeBefore.paidAmount) + amount
                /\ cRow'.paidAmount = cInst'[Callee].paidAmount
       ELSE /\ cOutcome'[Callee] = ErrRecordPayment
            /\ payments' = payments
            /\ cRow' = cRow
            /\ cInst' = cInst]_vars

\* A recordPayment call that the Payment model and the claim's status allow.
PayableCall(op, c) ==
  /\ op[1] = "recordPayment"
  /\ op[3].amount >= 1
  /\ c.status \in {"APPROVED", "PAID"}

\* C12: recordPayment is two writes outside any transaction: when the claim
\* update fails after the Payment was created, the Payment row stays
\* persisted with status COMPLETED, the claim's persisted paidAmount and
\* status are unchanged, and the error reaches the caller.
C12_OrphanPaymentOnUpdateFailure ==
  [][(RecordPaymentCalled /\ PayableCall(cOp', CalleeBefore)
        /\ cOp'[3].updateFails) =>
       /\ Len(payments') = Len(payments) + 1
       /\ payments'[Len(payments')].status = {"COMPLETED"}
       /\ cRow'.paidAmount = cRow.paidAmount
       /\ cRow'.status = cRow.status
       /\ cOutcome'[Callee] = ErrDatabase]_vars

\* C13: when two recordPayment calls run one after the other on separately
\* loaded instances of the same claim, both Payments are persisted and the
\* persisted paidAmount after the second is what the second instance had
\* read plus the second amount, whatever the first call wrote.
C13_LastWriteWins ==
  [][(/\ RecordPaymentCalled
      /\ PayableCall(cOp', CalleeBefore) /\ ~cOp'[3].updateFails
      /\ cOp # <<>> /\ cOp[2] # Callee
      /\ PayableCall(cOp, cInst[cOp[2]]) /\ ~cOp[3].updateFails) =>
       /\ Len(payments) >= 1
       /\ Len(payments') = Len(payments) + 1
       /\ cRow'.paidAmount
            = {OrZero(CalleeBefore.paidAmount) + cOp'[3].amount}]_vars

\* A step is a call of the Claim method op.
ClaimMethodCalled(op) == cCalls' # cCalls /\ cOp'[1] = op

\* The status, approvedAmount and assignedTo of the persisted claim and of
\* the instance called are as before.
ApprovalFieldsUnchanged ==
  \A f \in {"status", "approvedAmount", "assignedTo"} :
    cRow'[f] = cRow[f] /\ cInst'[Callee][f] = CalleeBefore[f]

\* What approve leaves in the instance and the row when it succeeds, given
\* the approved amount it stores.
Approved(stored) ==
  /\ cOutcome'[Callee] = "ok"
  /\ \A c \in {cInst'[Callee], cRow'} :
       /\ c.status = "APPROVED"
       /\ c.approvedAmount = stored
       /\ c.assignedTo = cOp'[3].userId

ApproveRefused ==
  /\ cOutcome'[Callee] = ErrApprove
  /\ ApprovalFieldsUnchanged

\* C14: approve(amount, userId) succeeds only from SUBMITTED or UNDER_REVIEW
\* and then sets status APPROVED, approvedAmount to the amount if one is
\* given and to estimatedAmount otherwise, and assignedTo to userId; from
\* every other status it fails with the invalid-state error and status,
\* approvedAmount and assignedTo are unchanged.
C14_ApproveAmountIfGiven ==
  [][ClaimMethodCalled("approve") =>
       IF CalleeBefore.status \in {"SUBMITTED", "UNDER_REVIEW"}
         THEN Approved(IF cOp'[3].approvedAmount # {}
                         THEN cOp'[3].approvedAmount
                       ELSE CalleeBefore.estimatedAmount)
       ELSE ApproveRefused]_vars

\* C14 as amended: the amount is stored when it is given and is not 0; an
\* amount of 0, like a missing one, stores the estimatedAmount.
C14_ApproveAmountIfNonZero ==
  [][ClaimMethodCalled("approve") =>
       IF CalleeBefore.status \in {"SUBMITTED", "UNDER_REVIEW"}
         THEN Approved(IF cOp'[3].approvedAmount \notin {{}, {0}}
                         THEN cOp'[3].approvedAmount
                       ELSE CalleeBefore.estimatedAmount)
       ELSE ApproveRefused]_vars

\* approve(0, user) was accepted and has stored the estimate.
C14_Witness ==
  /\ cOp # <<>> /\ cOp[1] = "approve"
  /\ cOp[3].approvedAmount = {0}
  /\ cOutcome[cOp[2]] = "ok"
  /\ cRow.status = "APPROVED"
  /\ cRow.estimatedAmount = {MaxAmount}
  /\ cRow.approvedAmount = {MaxAmount}
  /\ cRow.assignedTo = cOp[3].userId

\* C15: reject(reason, userId) succeeds only from SUBMITTED or UNDER_REVIEW
\* with a non-empty reason and then sets status REJECTED and rejectionReason
\* to the reason; with an empty or missing reason, or from any other status,
\* it fails and status and rejectionReason are unchanged.
C15_RejectNeedsReason ==
  [][ClaimMethodCalled("reject") =>
       IF /\ CalleeBefore.status \in {"SUBMITTED", "UNDER_REVIEW"}
          /\ cOp'[3].reason \notin {{}, {""}}
         THEN /\ cOutcome'[Callee] = "ok"
              /\ \A c \in {cInst'[Callee], cRow'} :
                   /\ c.status = "REJECTED"
                   /\ c.rejectionReason = cOp'[3].reason
       ELSE /\ cOutcome'[Callee] \in {ErrReject, ErrReason}
            /\ \A f \in {"status", "rejectionReason"} :
                 cRow'[f] = cRow[f] /\ cInst'[Callee][f] = CalleeBefore[f]]_vars

\* A reject call with a reason turned the claim REJECTED, and a reject call
\* with an empty reason on an instance still SUBMITTED or UNDER_REVIEW was
\* refused.
C15_Witness ==
  /\ cOp # <<>> /\ cOp[1] = "reject"
  /\ cOp[3].reason = {""}
  /\ cOutcome[cOp[2]] = ErrReason
  /\ cInst[cOp[2]].status \in {"SUBMITTED", "UNDER_REVIEW"}
  /\ cRow.status = "REJECTED"
  /\ cRow.rejectionReason = {"fraud"}

\* C16: submit succeeds only from DRAFT and then changes the status to
\* SUBMITTED and none of approvedAmount, paidAmount, assignedTo and
\* rejectionReason; from every other status it fails and the claim is
\* unmodified.
C16_SubmitOnlyFromDraft ==
  [][ClaimMethodCalled("submit") =>
       IF CalleeBefore.status = "DRAFT"
         THEN /\ cOutcome'[Callee] = "ok"
              /\ cInst'[Callee].status = "SUBMITTED"
              /\ cRow'.status = "SUBMITTED"
              /\ \A f \in {"approvedAmount", "paidAmount", "assignedTo",
                           "rejectionReason"} :
                   cRow'[f] = cRow[f] /\ cInst'[Callee][f] = CalleeBefore[f]
       ELSE /\ cOutcome'[Callee] = ErrSubmit
            /\ cRow' = cRow
            /\ cInst' = cInst]_vars

\* A submit call turned a DRAFT claim SUBMITTED, and a second submit call
\* was refused.
C16_Witness ==
  /\ cOp # <<>> /\ cOp[1] = "submit"
  /\ cOutcome[cOp[2]] = ErrSubmit
  /\ cRow0.status = "DRAFT"
  /\ cRow.status = "SUBMITTED"

(***************************************************************************)
(* Policy writes (src/src/models/Policy.js): Policy.create(values) and     *)
(* policy.update(values) on the policy as a request has just loaded it.    *)
(* Dates are instants in ticks; a nullable date is {} or {instant}.        *)
(***************************************************************************)
PolicyFields ==
  {"status", "policyStartDate", "policyEndDate", "cancellationDate",
   "totalInstallments", "paidInstallments", "pendingInstallments"}

DefaultTotalInstallments == 12
MinTotalInstallments == 1

\* The defaultValue of each attribute; a date has none.
PolicyDefault(f) ==
  CASE f = "status" -> "ACTIVE"
    [] f = "totalInstallments" -> DefaultTotalInstallments
    [] f = "paidInstallments" -> 0
    [] f = "pendingInstallments" -> 0
    [] OTHER -> {}

\* Policy.build(values).
PolicyBuildRow(values) ==
  [f \in PolicyFields |->
     IF f \in DOMAIN values THEN values[f] ELSE PolicyDefault(f)]

\* policy.set(values).
PolicySet(c, values) ==
  [f \in PolicyFields |-> IF f \in DOMAIN values THEN values[f] ELSE c[f]]

\* hooks.beforeValidate: pendingInstallments is recomputed.
PolicyBeforeValidate(p) ==
  [p EXCEPT !.pendingInstallments = p.totalInstallments - p.paidInstallments]

FieldValidLoose(p, f) ==
  CASE f = "policyStartDate" ->
         /\ p.policyStartDate # {}
         /\ p.policyEndDate # {} =>
              ~(Only(p.policyStartDate) > Only(p.policyEndDate))
    [] f = "policyEndDate" ->
         /\ p.policyEndDate # {}
         /\ p.policyStartDate # {} =>
              ~(Only(p.policyEndDate) < Only(p.policyStartDate))
    [] OTHER -> TRUE

\* The validation of one attribute: allowNull and the validate block.
FieldValid(p, f) ==
  CASE f = "policyStartDate" ->
         /\ p.policyStartDate # {}
         /\ p.policyEndDate # {} =>
              ~(Only(p.policyStartDate) >= Only(p.policyEndDate))
    [] f = "policyEndDate" ->
         /\ p.policyEndDate # {}
         /\ p.policyStartDate # {} =>
              ~(Only(p.policyEndDate) <= Only(p.policyStartDate))
    [] f = "cancellationDate" ->
         (p.cancellationDate # {} /\ p.policyStartDate # {}) =>
           ~(Only(p.cancellationDate) < Only(p.policyStartDate))
    [] f = "totalInstallments" -> p.totalInstallments >= MinTotalInstallments
    [] f = "paidInstallments" -> p.paidInstallments >= 0
    [] f = "pendingInstallments" -> p.pendingInstallments >= 0
    [] OTHER -> TRUE

\* instance.validate({ fields }): only the attributes being saved are
\* validated.
PolicyValidateFields(p, fields) == \A f \in fields : FieldValid(p, f)

PolicyBeforeUpdateAlways(before, p, t) ==
  IF p.status # before.status /\ p.status = "CANCELLED"
    THEN [p EXCEPT !.cancellationDate = {t}]
  ELSE p

\* hooks.beforeUpdate: a status changed to CANCELLED gets cancellationDate
\* now unless one is set.
PolicyBeforeUpdate(before, p, t) ==
  IF p.status # before.status /\ p.status = "CANCELLED"
       /\ p.cancellationDate = {}
    THEN [p EXCEPT !.cancellationDate = {t}]
  ELSE p

ErrValidation == "SequelizeValidationError"

\* Policy.create(values): build, beforeValidate, validation of every
\* attribute, insert.
Policy_create(values) ==
  /\ pRow = {}
  /\ LET p == PolicyBeforeValidate(PolicyBuildRow(values)) IN
       IF ~PolicyValidateFields(p, PolicyFields)
         THEN /\ pOp' = <<"create", values, ErrValidation>>
              /\ UNCHANGED pRow
       ELSE /\ pOp' = <<"create", values, "ok">>
            /\ pRow' = {p}
  /\ UNCHANGED <<quoteVars, fnVars, claimVars, ledgerVars>>

\* policy.update(values) on the policy as loaded: set, beforeValidate and
\* validation of the given attributes, beforeUpdate, validation of what the
\* hook changed, then the UPDATE of the given and the hook-changed
\* attributes.
Policy_update(values) ==
  /\ pRow # {}
  /\ LET c == Only(pRow)
         p == PolicyBeforeValidate(PolicySet(c, values))
         hooked == PolicyBeforeUpdate(c, p, now)
         hookChanged == {f \in {"cancellationDate"} : hooked[f] # p[f]}
         fields == DOMAIN values \cup hookChanged
     IN IF \/ ~PolicyValidateFields(p, DOMAIN values)
           \/ ~PolicyValidateFields(PolicyBeforeValidate(hooked), hookChanged)
          THEN /\ pOp' = <<"update", values, ErrValidation>>
               /\ UNCHANGED pRow
        ELSE /\ pOp' = <<"update", values, "ok">>
             /\ pRow' = {[f \in PolicyFields |->
                            IF f \in fields THEN hooked[f] ELSE c[f]]}
  /\ UNCHANGED <<quoteVars, fnVars, claimVars, ledgerVars>>

MaxDate == 2
MaxInstallments == 2

\* The clock advances between policy writes, to past the last date.
PolicyTick ==
  /\ now <= MaxDate
  /\ now' = now + 1
  /\ pOp' = <<>>
  /\ UNCHANGED <<qRow, qRow0, policies, inst, pc, callUser, outcome, ncalls>>
  /\ UNCHANGED <<pRow, fnVars, claimVars, ledgerVars>>

PolicyInit ==
  /\ PolicyIdle
  /\ LedgerIdle
  /\ QuoteIdle
  /\ ClaimIdle
  /\ args = <<>>
  /\ result = {}

DateVals == {{d} : d \in 0..MaxDate}
StatusVals == {"ACTIVE", "CANCELLED"}

\* The values of the writes that concern the status and the dates.
DateCreateInputs ==
  [policyStartDate : DateVals, policyEndDate : DateVals]
  \cup [policyStartDate : DateVals, policyEndDate : DateVals,
        status : StatusVals]
  \cup [policyStartDate : DateVals, policyEndDate : DateVals,
        cancellationDate : DateVals]
  \cup [policyStartDate : DateVals, policyEndDate : DateVals,
        status : StatusVals, cancellationDate : DateVals]
  \cup [policyEndDate : DateVals]

DateUpdateInputs ==
  [status : StatusVals]
  \cup [policyStartDate : DateVals]
  \cup [policyEndDate : DateVals]
  \cup [cancellationDate : DateVals]
  \cup [policyStartDate : DateVals, policyEndDate : DateVals]
  \cup [status : StatusVals, cancellationDate : DateVals]
  \cup [status : StatusVals, policyStartDate : DateVals]
  \cup [policyStartDate : DateVals, cancellationDate : DateVals]

PolicyNext ==
  \/ PolicyTick
  \/ \E v \in DateCreateInputs : Policy_create(v)
  \/ \E v \in DateUpdateInputs : Policy_update(v)

SpecPolicy == PolicyInit /\ [][PolicyNext]_vars

\* The values of the writes that concern the installments.
TotalVals == 0..MaxInstallments
PaidVals == (-1)..(MaxInstallments + 1)
PendingVals == 0..MaxInstallments

InstallmentCreateInputs ==
  {[policyStartDate |-> {0}, policyEndDate |-> {1}]}
  \cup [policyStartDate : {{0}}, policyEndDate : {{1}},
        totalInstallments : TotalVals]
  \cup [policyStartDate : {{0}}, policyEndDate : {{1}},
        paidInstallments : PaidVals]
  \cup [policyStartDate : {{0}}, policyEndDate : {{1}},
        pendingInstallments : PendingVals]
  \cup [policyStartDate : {{0}}, policyEndDate : {{1}},
        totalInstallments : TotalVals, paidInstallments : PaidVals]
  \cup [policyStartDate : {{0}}, policyEndDate : {{1}},
        totalInstallments : TotalVals, paidInstallments : PaidVals,
        pendingInstallments : PendingVals]

InstallmentUpdateInputs ==
  [totalInstallments : TotalVals]
  \cup [paidInstallments : PaidVals]
  \cup [pendingInstallments : PendingVals]
  \cup [totalInstallments : TotalVals, paidInstallments : PaidVals]
  \cup [paidInstallments : PaidVals, pendingInstallments : PendingVals]
  \cup [totalInstallments : TotalVals, paidInstallments : PaidVals,
        pendingInstallments : PendingVals]

InstallmentNext ==
  \/ \E v \in InstallmentCreateInputs : Policy_create(v)
  \/ \E v \in InstallmentUpdateInputs : Policy_update(v)

SpecInstallments == PolicyInit /\ [][InstallmentNext]_vars

\* The persisted policy, when there is one.
ThePolicy == Only(pRow)

\* C17: every persisted policy with status CANCELLED has a cancellationDate
\* that is set and is not earlier than its policyStartDate.
C17_CancelledHasDate ==
  (pRow # {} /\ ThePolicy.status = "CANCELLED") =>
    /\ ThePolicy.cancellationDate # {}
    /\ Only(ThePolicy.cancellationDate) >= Only(ThePolicy.policyStartDate)

\* A step is a policy update, of the policy before and with the values v.
PolicyUpdated == pOp' # <<>> /\ pOp'[1] = "update" /\ pRow # {}
Before == Only(pRow)
After == Only(pRow')
Given == pOp'[2]
Refused == pOp'[3] = ErrValidation /\ pRow' = pRow

\* The policy start date an update leaves in the instance.
StartAfterSet ==
  IF "policyStartDate" \in DOMAIN Given THEN Given.policyStartDate
  ELSE Before.policyStartDate

\* The update changes the status to CANCELLED, gives no cancellationDate,
\* and the dates it gives are valid.
Cancels ==
  /\ "status" \in DOMAIN Given /\ Given.status = "CANCELLED"
  /\ Before.status # "CANCELLED"
  /\ "cancellationDate" \notin DOMAIN Given
  /\ PolicyValidateFields(PolicySet(Before, Given), DOMAIN Given)

\* An update that gives no cancellationDate and does not cancel, or cancels
\* a policy whose cancellationDate is set, leaves the cancellationDate as
\* it is.
KeepsCancellationDate ==
  ("cancellationDate" \notin DOMAIN Given
     /\ (~Cancels \/ Before.cancellationDate # {}))
    => After.cancellationDate = Before.cancellationDate

\* A write that gives a cancellationDate earlier than the policyStartDate is
\* refused.
BackdatedRefused ==
  /\ PolicyUpdated =>
       (("cancellationDate" \in DOMAIN Given
           /\ Only(Given.cancellationDate) < Only(StartAfterSet)) => Refused)
  /\ (pOp' # <<>> /\ pOp'[1] = "create" /\ pRow = {}) =>
       (({"cancellationDate", "policyStartDate"} \subseteq DOMAIN Given
           /\ Only(Given.cancellationDate) < Only(Given.policyStartDate))
          => Refused)

\* C18: an update of the status to CANCELLED sets cancellationDate to now
\* when none is set and leaves a set one untouched; an update that does not
\* change the status to CANCELLED never sets cancellationDate; a write that
\* gives a cancellationDate earlier than policyStartDate is refused with a
\* validation error and the persisted policy is unchanged.
C18_CancelSetsDateNow ==
  [][/\ PolicyUpdated =>
          /\ (Cancels /\ Before.cancellationDate = {}) =>
               /\ pOp'[3] = "ok"
               /\ After.status = "CANCELLED"
               /\ After.cancellationDate = {now}
          /\ KeepsCancellationDate
     /\ BackdatedRefused]_vars

\* C18 as amended: the cancellationDate set is now when now is not earlier
\* than the policyStartDate; when it is earlier, the update is refused with
\* a validation error and the persisted policy is unchanged.
C18_CancelSetsDateNowOrRefused ==
  [][/\ PolicyUpdated =>
          /\ (Cancels /\ Before.cancellationDate = {}) =>
               IF now >= Only(StartAfterSet)
                 THEN /\ pOp'[3] = "ok"
                      /\ After.status = "CANCELLED"
                      /\ After.cancellationDate = {now}
               ELSE Refused
          /\ KeepsCancellationDate
     /\ BackdatedRefused]_vars

\* A policy that had started and had no cancellationDate was cancelled and
\* holds the time of the update as its cancellationDate.
C18_Witness ==
  /\ pOp # <<>> /\ pOp[1] = "update" /\ pOp[3] = "ok"
  /\ DOMAIN pOp[2] = {"status"}
  /\ pOp[2].status = "CANCELLED"
  /\ ThePolicy.status = "CANCELLED"
  /\ ThePolicy.cancellationDate = {now}
  /\ Only(ThePolicy.policyStartDate) < now

\* A step is a policy write, and what the write asks the policy to be.
PolicyWritten == pOp' # <<>>
Asked ==
  IF pRow = {} THEN PolicyBuildRow(Given) ELSE PolicySet(Before, Given)

\* C19: after every successful policy write pendingInstallments is
\* totalInstallments - paidInstallments and is not negative, whatever
\* pendingInstallments the caller gave; a write that would make
\* paidInstallments exceed totalInstallments is refused by validation and
\* the persisted policy is unchanged.
C19_PendingIsTotalLessPaid ==
  [][PolicyWritten =>
       /\ pOp'[3] = "ok" =>
            /\ After.pendingInstallments
                 = After.totalInstallments - After.paidInstallments
            /\ After.pendingInstallments >= 0
       /\ Asked.paidInstallments > Asked.totalInstallments => Refused]_vars

\* A step is a policy write that would leave the policy with a
\* policyStartDate not before its policyEndDate.
AsksStartNotBeforeEnd ==
  /\ PolicyWritten
  /\ Asked.policyStartDate # {} /\ Asked.policyEndDate # {}
  /\ Only(Asked.policyStartDate) >= Only(Asked.policyEndDate)

PaymentIds == {"p1", "p2"}
TransactionIds == {"t1", "t2"}
MpesaCodes == {"m1"}

\* The where clause of markAsCompleted, under the default scope.
markAsCompletedWhere(row, transactionId) ==
  /\ defaultScope(row)
  /\ row.transactionId = {transactionId}
  /\ row.status = "PENDING"

\* The values markAsCompleted writes: mpesaCode || undefined leaves the
\* column out when no code is given.
markAsCompletedSet(row, mpesaCode) ==
  IF mpesaCode # {} /\ mpesaCode # {""}
    THEN [row EXCEPT !.status = "COMPLETED", !.mpesaCode = mpesaCode]
    ELSE [row EXCEPT !.status = "COMPLETED"]

markAsCompleted(transactionId, mpesaCode) ==
  LET matched == {p \in PaymentIds :
                    markAsCompletedWhere(payTable[p], transactionId)}
      updated == Cardinality(matched)
  IN /\ payTable' = [p \in PaymentIds |->
                       IF p \in matched
                         THEN markAsCompletedSet(payTable[p], mpesaCode)
                         ELSE payTable[p]]
     /\ payOp' = [transactionId |-> transactionId, mpesaCode |-> mpesaCode,
                  returned |-> updated > 0]
     /\ UNCHANGED <<comRow, comOp>>
     /\ UNCHANGED <<quoteVars, fnVars, claimVars, policyVars>>

\* The rows the table can hold: IDX_PAYMENTS_TRANSACTION_ID is unique, so no
\* two rows share a transaction id; INIT is a column of the view that the
\* model does not write.
PaymentTableRows ==
  [transactionId : {{}} \cup {{t} : t \in TransactionIds},
   status : PaymentStatusEnum,
   amount : {1, 2},
   mpesaCode : {{}},
   INIT : {0, 1}]

PaymentTables ==
  {t \in [PaymentIds -> PaymentTableRows] :
     \A p, q \in PaymentIds :
       p # q /\ t[p].transactionId # {}
         => t[p].transactionId # t[q].transactionId}

MarkInit ==
  /\ QuoteIdle
  /\ ClaimIdle
  /\ PolicyIdle
  /\ args = <<>>
  /\ result = {}
  /\ payTable \in PaymentTables
  /\ payOp = <<>>
  /\ comRow = {}
  /\ comOp = <<>>

MarkNext ==
  \E transactionId \in TransactionIds :
    \E mpesaCode \in {{}} \cup {{m} : m \in MpesaCodes} :
      markAsCompleted(transactionId, mpesaCode)

SpecMark == MarkInit /\ [][MarkNext]_vars

\* The step is a markAsCompleted call with this transaction id.
MarkCalled(transactionId) ==
  \E mpesaCode \in {{}} \cup {{m} : m \in MpesaCodes} :
    markAsCompleted(transactionId, mpesaCode)

\* The row is a PENDING payment with this transaction id.
PendingWith(row, transactionId) ==
  row.transactionId = {transactionId} /\ row.status = "PENDING"

\* C21: markAsCompleted(transactionId) changes the status of the PENDING
\* payment with that transaction id to COMPLETED and returns true; a call
\* that finds no such payment (a repeated call among them) returns false and
\* changes nothing. It never changes the amount of a payment, and never
\* changes a payment that is not PENDING or has another transaction id.
C21_MarkAsCompleted ==
  [][\A transactionId \in TransactionIds :
       MarkCalled(transactionId) =>
         /\ \A p \in PaymentIds :
              /\ payTable'[p].amount = payTable[p].amount
              /\ IF PendingWith(payTable[p], transactionId)
                   THEN /\ payTable'[p].status = "COMPLETED"
                        /\ payOp'.returned
                   ELSE payTable'[p] = payTable[p]
         /\ (\A p \in PaymentIds : ~PendingWith(payTable[p], transactionId))
              => ~payOp'.returned /\ payTable' = payTable]_vars

(***************************************************************************)
(* Commission (the Commission model): amounts are in thousandths, so that  *)
(* a value with more than 2 decimal places can be told from its rounding;  *)
(* rates are in tenths of a percent.                                       *)
(***************************************************************************)
PerHundredth == 10
MinCommissionAmount == 10
MaxRate == 1000
DueDays == 30

CommissionStatusEnum ==
  {"PENDING", "APPROVED", "PROCESSING", "PAID", "CANCELLED", "DISPUTED"}

CommissionAttributes ==
  {"intermediaryId", "productId", "amount", "rate", "dueDate", "paidDate",
   "status", "paymentReference", "processedBy"}

\* A DATEONLY attribute keeps the day of the instant it is given.
InstantToDateOnly(t) == t \div TicksPerDay

\* Math.round(x * 100) / 100 of an amount: the nearest hundredth, a half
\* going up.
RoundToHundredths(amount) ==
  ((amount + (PerHundredth \div 2)) \div PerHundredth) * PerHundredth

\* A mutant of DecimalStore: the column keeps every digit it is given.
DecimalStoreExact(amount) == amount

\* What a DECIMAL(10, 2) column keeps of the number written to it: the
\* database rounds to the scale of the column, a half away from zero.
DecimalStore(amount) ==
  IF amount >= 0
    THEN ((amount + (PerHundredth \div 2)) \div PerHundredth) * PerHundredth
    ELSE -(((-amount + (PerHundredth \div 2)) \div PerHundredth) * PerHundredth)

\* Commission.build(values): the attributes given, and the defaults of the
\* others; a key that is not an attribute is dropped.
CommissionBuild(values) ==
  [f \in CommissionAttributes |->
     IF f \in DOMAIN values THEN values[f]
     ELSE IF f = "status" THEN "PENDING" ELSE {}]

\* The validation of one attribute: allowNull: false and the validate block.
CommissionFieldValid(c, f) ==
  CASE f \in {"intermediaryId", "productId"} -> c[f] # {}
    [] f = "amount" ->
         c.amount # {} /\ Only(c.amount) >= MinCommissionAmount
    [] f = "rate" ->
         c.rate # {} /\ Only(c.rate) >= 0 /\ Only(c.rate) <= MaxRate
    [] OTHER -> TRUE

ErrNegativeAmount == "Commission amount cannot be negative"

\* hooks.beforeCreate: the error it raises, if any.
beforeCreateError(c) ==
  IF c.amount # {} /\ Only(c.amount) < 0 THEN ErrNegativeAmount ELSE NoError

\* hooks.beforeCreate: the default dueDate and the rounding of amount.
beforeCreateCommission(c, t) ==
  LET due == IF c.dueDate = {}
               THEN [c EXCEPT !.dueDate =
                       {InstantToDateOnly(t + DueDays * TicksPerDay)}]
               ELSE c
  IN IF Truthy(due.amount)
       THEN [due EXCEPT !.amount = {RoundToHundredths(Only(due.amount))}]
       ELSE due

\* The row the INSERT or UPDATE leaves: the columns keep what their types
\* can hold.
CommissionStore(c) ==
  IF c.amount = {} THEN c
  ELSE [c EXCEPT !.amount = {DecimalStore(Only(c.amount))}]

\* A mutant of Commission_create: the row is inserted without validation and
\* without the hook's check.
Commission_createUnchecked(values) ==
  LET built == CommissionBuild(values)
  IN /\ comRow = {}
     /\ comRow' = {CommissionStore(beforeCreateCommission(built, now))}
     /\ comOp' = <<"create", values, NoError, {}>>
     /\ UNCHANGED <<payTable, payOp>>
     /\ UNCHANGED <<quoteVars, fnVars, claimVars, policyVars>>

\* Commission.create(values): build, validate every attribute, run
\* beforeCreate, insert.
Commission_create(values) ==
  LET built == CommissionBuild(values)
      valid == \A f \in CommissionAttributes : CommissionFieldValid(built, f)
      err == IF ~valid THEN ErrValidation ELSE beforeCreateError(built)
  IN /\ comRow = {}
     /\ comRow' = IF err = NoError
                    THEN {CommissionStore(beforeCreateCommission(built, now))}
                    ELSE comRow
     /\ comOp' = <<"create", values, err, {}>>
     /\ UNCHANGED <<payTable, payOp>>
     /\ UNCHANGED <<quoteVars, fnVars, claimVars, policyVars>>

\* The keys of the values of an update that carry a value and name an
\* attribute: update() leaves out undefined values, set() ignores unknown
\* keys.
CommissionGiven(values) ==
  {f \in DOMAIN values \cap CommissionAttributes :
     f = "status" \/ values[f] # {}}

\* commission.update(values) on the commission as loaded: set the given
\* attributes, validate them, write them. The model has no beforeUpdate
\* hook.
Commission_update(kind, values) ==
  LET c == Only(comRow)
      given == CommissionGiven(values)
      set == [f \in CommissionAttributes |->
                IF f \in given THEN values[f] ELSE c[f]]
      valid == \A f \in given : CommissionFieldValid(set, f)
  IN /\ comRow # {}
     /\ comRow' = IF valid THEN {CommissionStore(set)} ELSE comRow
     /\ comOp' = <<kind, values, IF valid THEN NoError ELSE ErrValidation,
                  {c.status}>>
     /\ UNCHANGED <<payTable, payOp>>
     /\ UNCHANGED <<quoteVars, fnVars, claimVars, policyVars>>

\* A mutant of approveCommission: only a PENDING commission is approved.
approveCommissionFromPending(userId) ==
  /\ comRow # {}
  /\ IF Only(comRow).status = "PENDING"
       THEN Commission_update("approve",
                              [status |-> "APPROVED",
                               processedBy |-> userId, updatedBy |-> userId])
       ELSE /\ comOp' = <<"approve",
                          [status |-> "APPROVED",
                           processedBy |-> userId, updatedBy |-> userId],
                          ErrValidation, {Only(comRow).status}>>
            /\ UNCHANGED <<comRow, payTable, payOp>>
            /\ UNCHANGED <<quoteVars, fnVars, claimVars, policyVars>>

\* Commission.approve(userId).
approveCommission(userId) ==
  /\ Commission_update("approve",
                       [status |-> "APPROVED",
                        processedBy |-> userId, updatedBy |-> userId])

\* A mutant of paidDateOf: the payment date is ignored.
paidDateNow(paymentDate, t) == {InstantToDateOnly(t)}

\* paymentDate || new Date(), as the DATEONLY attribute paidDate keeps it.
paidDateOf(paymentDate, t) ==
  IF paymentDate # {} THEN {InstantToDateOnly(Only(paymentDate))}
  ELSE {InstantToDateOnly(t)}

\* Commission.markAsPaid(paymentReference, userId, paymentDate).
markAsPaid(paymentReference, userId, paymentDate) ==
  /\ Commission_update("markAsPaid",
                       [status |-> "PAID",
                        paymentReference |-> paymentReference,
                        paidDate |-> paidDateOf(paymentDate, now),
                        processedBy |-> userId, updatedBy |-> userId])

\* The clock advances between commission writes.
CommissionTick ==
  /\ now < MaxDate
  /\ now' = now + 1
  /\ UNCHANGED <<qRow, qRow0, policies, inst, pc, callUser, outcome, ncalls>>
  /\ UNCHANGED <<fnVars, claimVars, policyVars, ledgerVars>>

\* The values the writes are given. Amounts: none, -5, 0, 0.004, 0.014 and
\* 1.234.
CommissionAmounts ==
  {{}, {-5000}, {0}, {4}, {14}, {1234}}

CommissionCreateInputs ==
  [intermediaryId : {{}, {"i1"}}, productId : {{"pr1"}},
   amount : CommissionAmounts, rate : {{125}, {MaxRate + 1}},
   dueDate : {{}, {1}}]

CommissionUpdateInputs ==
  [amount : CommissionAmounts \ {{}}] \cup [status : CommissionStatusEnum]

PaymentReferences == {{}} \cup {{r} : r \in {"ref1", "ref2"}}
PaymentDates == {{}, {0}, {MaxDate}}

CommissionInit ==
  /\ QuoteIdle
  /\ ClaimIdle
  /\ PolicyIdle
  /\ LedgerIdle
  /\ args = <<>>
  /\ result = {}

CommissionNext ==
  \/ CommissionTick
  \/ \E values \in CommissionCreateInputs : Commission_create(values)
  \/ \E values \in CommissionUpdateInputs :
       Commission_update("update", values)
  \/ \E userId \in UserArgs : approveCommission(userId)
  \/ \E paymentReference \in PaymentReferences :
       \E userId \in UserArgs :
         \E paymentDate \in PaymentDates :
           markAsPaid(paymentReference, userId, paymentDate)

SpecCommission == CommissionInit /\ [][CommissionNext]_vars

\* The persisted commission.
TheCommission == Only(comRow)

\* C22: creating a commission with a negative amount fails before anything
\* is persisted: an error is raised, no commission row exists afterwards,
\* and no other state changes.
C22_NegativeAmountRefused ==
  [][\A values \in CommissionCreateInputs :
       (Commission_create(values)
          /\ values.amount # {} /\ Only(values.amount) < 0)
       => /\ comOp'[3] # NoError
          /\ comRow' = {}
          /\ UNCHANGED <<quoteVars, fnVars, claimVars, policyVars>>
          /\ UNCHANGED <<payTable, payOp>>]_vars

\* A create with amount -5 and every other value valid was refused and no
\* row exists.
C22_Witness ==
  /\ comOp # <<>> /\ comOp[1] = "create"
  /\ comOp[2].amount = {-5000}
  /\ comOp[2].intermediaryId # {} /\ comOp[2].rate = {125}
  /\ comOp[3] # NoError
  /\ comRow = {}

\* The step is a successful write of the commission's amount.
AmountWritten ==
  \/ \E values \in CommissionCreateInputs :
       Commission_create(values) /\ comOp'[3] = NoError
  \/ \E values \in CommissionUpdateInputs :
       /\ Commission_update("update", values)
       /\ "amount" \in DOMAIN values
       /\ comOp'[3] = NoError

\* The amount has at most 2 decimal places and is at least 0.01.
RoundedAndPositive(amount) ==
  /\ amount # {}
  /\ Only(amount) % PerHundredth = 0
  /\ Only(amount) >= MinCommissionAmount

\* C23: after every successful write of a commission (creation and every
\* later update of amount), the persisted amount is rounded to 2 decimal
\* places and is at least 0.01.
C23_AmountRounded ==
  /\ [](comRow # {} => RoundedAndPositive(TheCommission.amount))
  /\ [][AmountWritten => RoundedAndPositive(TheCommission.amount')]_vars

\* An update of amount to 1.234 succeeded and the row holds 1.23.
C23_Witness ==
  /\ comOp # <<>> /\ comOp[1] = "update"
  /\ DOMAIN comOp[2] = {"amount"} /\ comOp[2].amount = {1234}
  /\ comOp[3] = NoError
  /\ TheCommission.amount = {1230}

(***************************************************************************)
(* Commission.calculateCommission: premiums and commissions are in         *)
(* hundredths, rates in tenths of a percent.                               *)
(***************************************************************************)
RatePerPercent == 10

\* A mutant of calculateCommission: the digits after the second decimal
\* place are cut off.
calculateCommissionTruncated(premium, rate) ==
  (premium * rate) \div (Percent * RatePerPercent)

\* Math.round((premium * (rate / 100)) * 100) / 100: Math.round is
\* floor(x + 1/2).
calculateCommission(premium, rate) ==
  LET den == Percent * RatePerPercent
  IN (2 * premium * rate + den) \div (2 * den)

MaxCommissionPremium == 12

\* Premiums up to 0.12 and 5000.00; rates 0, 0.5, 12.5, 33.3 and 100.
CalcPremiums == 0..MaxCommissionPremium \cup {5000 * Percent}
CalcRates == {0, 5, 125, 333, MaxRate}

CalcInit ==
  /\ args \in [premium : CalcPremiums, rate : CalcRates]
  /\ result = {}
  /\ QuoteIdle
  /\ ClaimIdle
  /\ PolicyIdle
  /\ LedgerIdle

calculateCommission_call ==
  /\ result' = {calculateCommission(args.premium, args.rate)}
  /\ UNCHANGED <<args, quoteVars, claimVars, policyVars, ledgerVars>>

SpecCalc == CalcInit /\ [][calculateCommission_call]_vars

StatusBefore == Only(comOp[4])

\* C25: Commission.approve(userId) sets status = APPROVED and processedBy =
\* userId and leaves amount, rate, paidDate and paymentReference unchanged;
\* it does so from every current status, PAID and CANCELLED included.
C25_ApproveFromAnyStatus ==
  [][\A userId \in UserArgs :
       approveCommission(userId) =>
         /\ comOp'[3] = NoError
         /\ TheCommission.status' = "APPROVED"
         /\ userId # {} => TheCommission.processedBy' = userId
         /\ \A f \in {"amount", "rate", "paidDate", "paymentReference"} :
              TheCommission[f]' = TheCommission[f]]_vars

\* A PAID commission was approved; it keeps its paidDate and
\* paymentReference.
C25_Witness ==
  /\ comOp # <<>> /\ comOp[1] = "approve" /\ comOp[3] = NoError
  /\ StatusBefore = "PAID"
  /\ TheCommission.status = "APPROVED"
  /\ TheCommission.processedBy = comOp[2].processedBy
  /\ TheCommission.processedBy # {}
  /\ TheCommission.paidDate # {}
  /\ TheCommission.paymentReference # {}

\* C26: Commission.markAsPaid(paymentReference, userId, paymentDate) sets
\* status = PAID, paymentReference to the reference given and paidDate to
\* the date of paymentDate when one is given and to the date of now
\* otherwise; amount and rate are unchanged. It does so on a commission that
\* is already PAID too, overwriting paymentReference and paidDate.
C26_MarkAsPaid ==
  [][\A paymentReference \in PaymentReferences :
       \A userId \in UserArgs :
         \A paymentDate \in PaymentDates :
           markAsPaid(paymentReference, userId, paymentDate) =>
             /\ comOp'[3] = NoError
             /\ TheCommission.status' = "PAID"
             /\ paymentReference # {}
                  => TheCommission.paymentReference' = paymentReference
             /\ TheCommission.paidDate'
                  = IF paymentDate # {}
                      THEN {Only(paymentDate) \div TicksPerDay}
                      ELSE {now \div TicksPerDay}
             /\ TheCommission.amount' = TheCommission.amount
             /\ TheCommission.rate' = TheCommission.rate]_vars

\* A commission that was PAID was marked as paid again, and carries the
\* reference and the date of this call.
C26_Witness ==
  /\ comOp # <<>> /\ comOp[1] = "markAsPaid" /\ comOp[3] = NoError
  /\ StatusBefore = "PAID"
  /\ comOp[2].paymentReference # {}
  /\ TheCommission.status = "PAID"
  /\ TheCommission.paymentReference = comOp[2].paymentReference
  /\ TheCommission.paidDate = comOp[2].paidDate

LifecycleStatuses == {"DRAFT", "SUBMITTED", "APPROVED", "REJECTED", "PAID"}

\* The step is a call of a lifecycle method.
LifecycleCall == cCalls' # cCalls

\* Going from status s to status t leaves the lifecycle statuses or returns
\* to DRAFT or SUBMITTED.
Returns(s, t) ==
  \/ t \notin LifecycleStatuses
  \/ s # "DRAFT" /\ t = "DRAFT"
  \/ s \notin {"DRAFT", "SUBMITTED"} /\ t = "SUBMITTED"

\* C29 as stated: starting from a DRAFT claim, the lifecycle methods leave
\* the claim only in DRAFT, SUBMITTED, APPROVED, REJECTED or PAID, and its
\* status never returns to DRAFT or SUBMITTED once it has left them.
C29_StatusNeverReturns ==
  [][cRow0.status = "DRAFT" => ~Returns(cRow.status, cRow.status')]_vars

\* C29, amended: starting from a DRAFT claim, the persisted status is always
\* one of DRAFT, SUBMITTED, APPROVED, REJECTED and PAID and never returns to
\* DRAFT, and no call moves the status of the instance it is made on back to
\* DRAFT or SUBMITTED; the persisted status returns to SUBMITTED only by a
\* submit made on an instance that still holds the DRAFT.
C29_StatusNeverReturnsOnInstance ==
  /\ [](cRow0.status = "DRAFT" => cRow.status \in LifecycleStatuses)
  /\ [][(cRow0.status = "DRAFT" /\ LifecycleCall) =>
          /\ cRow.status' # cRow.status => cRow.status' # "DRAFT"
          /\ ~Returns(CalleeBefore.status, cInst'[Callee].status)
          /\ Returns(cRow.status, cRow.status')
               => cOp'[1] = "submit" /\ CalleeBefore.status = "DRAFT"]_vars

\* A claim created as a DRAFT was approved through one instance and then
\* submitted through the other, which still held the DRAFT: the persisted
\* status is SUBMITTED again.
C29_Witness ==
  /\ cRow0.status = "DRAFT"
  /\ cOp # <<>> /\ cOp[1] = "submit" /\ cOutcome[cOp[2]] = "ok"
  /\ cRow.status = "SUBMITTED"
  /\ cInst[cOp[2]].status = "SUBMITTED"
  /\ \E i \in Instances : cInst[i].status = "APPROVED"

\* The call failed and changed nothing.
FailedUnchanged ==
  /\ cOutcome'[Callee] # "ok"
  /\ cRow' = cRow
  /\ cInst' = cInst
  /\ payments' = payments

\* C30: for a single loaded claim, REJECTED and PAID are absorbing: on a
\* REJECTED claim every submit, approve, reject and recordPayment call fails
\* and changes nothing; on a PAID claim submit, approve and reject fail and
\* change nothing, and recordPayment (of a positive amount, the storage
\* layer working) succeeds, keeps the status PAID and increases paidAmount
\* by the amount.
C30_RejectedAndPaidAbsorbing ==
  [][LifecycleCall =>
       /\ CalleeBefore.status = "REJECTED" => FailedUnchanged
       /\ (CalleeBefore.status = "PAID" /\ cOp'[1] # "recordPayment")
            => FailedUnchanged
       /\ (/\ CalleeBefore.status = "PAID"
           /\ cOp'[1] = "recordPayment"
           /\ cOp'[3].amount > 0
           /\ ~cOp'[3].updateFails)
            => /\ cOutcome'[Callee] = "ok"
               /\ cInst'[Callee].status = "PAID"
               /\ cRow'.status = "PAID"
               /\ OrZero(cInst'[Callee].paidAmount)
                    = OrZero(CalleeBefore.paidAmount) + cOp'[3].amount]_vars

====
